---- MODULE Spec2Model ----
(***************************************************************************)
(* Science Jeopardy practice quiz (science_jeopardy.py): the session held  *)
(* in st.session_state, the "Start New Test" button, the "Submit Test"     *)
(* form button with its grading, and the passing of wall-clock time.       *)
(***************************************************************************)
EXTENDS Integers, Sequences, FiniteSets, TLC

----------------------------------------------------------------------------
\* Configuration and literals of the program.

TEST_DURATION_MINUTES == 30

QUESTIONS_PER_TEST == 30

\* "if score >= 25" and "elif score >= 15" of the score display.
ExcellentMin == 25

ReviewMin == 15

----------------------------------------------------------------------------
\* Bounds of the model.

\* Longest question list of which every content is enumerated.
MaxBank == 2

\* Number of times the clock advances.
MaxTicks == 2

----------------------------------------------------------------------------
\* Values.

\* Python's None: a JSON null read by json.load, the value of a radio created
\* with index=None while nothing is selected, the unset start_time.
PyNone == "None"

\* start_time is None or a float; a one-element tuple carries the number.
NoTime == <<>>

\* The options every modelled question offers.
Options == <<"A", "B">>

\* A question object of questions.json, reduced to what the form and the
\* grading read: q['options'] and q['answer'].
Question(ans) == [options |-> Options, answer |-> ans]

\* Two well-formed questions and one whose "answer" is JSON null; the loader
\* checks nothing about the elements of the list.
Records == {Question("A"), Question("B"), Question(PyNone)}

Min(a, b) == IF a <= b THEN a ELSE b

Repeat(x, n) == [i \in 1..n |-> x]

\* Sizes of the long banks: one short of the "excellent" threshold, and one
\* more than the configured number of questions.
LargeBankSizes == {ExcellentMin - 1, QUESTIONS_PER_TEST + 1}

\* The lists questions.json may hold: every list of at most MaxBank records,
\* and long lists of one repeated well-formed record.
QuestionLists ==
    UNION {[1..n -> Records] : n \in 0..MaxBank}
        \cup {Repeat(Question("A"), n) : n \in LargeBankSizes}

\* What open() and json.load() can meet: no file, a file that is not JSON,
\* JSON whose top-level value is not a list, or a list.
FileContents ==
    {[kind |-> k, data |-> <<>>] : k \in {"missing", "invalid", "object"}}
        \cup {[kind |-> "list", data |-> l] : l \in QuestionLists}

----------------------------------------------------------------------------
VARIABLES
    exam_started,        \* st.session_state.exam_started
    selected_questions,  \* st.session_state.selected_questions
    start_time,          \* st.session_state.start_time
    clock,               \* time.time(), in seconds
    bank,                \* start_test's bank in the last script run, [] if
                         \* that run did not call it
    load_error,          \* the st.error message of that load, "" if none
    report               \* the results rendered by the last script run

vars == <<exam_started, selected_questions, start_time, clock, bank,
          load_error, report>>

session == <<exam_started, selected_questions, start_time>>

\* Nothing rendered below the form: the run was not a submit.
NoReport == [submitted |-> FALSE]

----------------------------------------------------------------------------
\* load_questions_from_file: the list, or [] with an error message.
load_questions_from_file(src) ==
    IF src.kind = "missing"
    THEN [data |-> <<>>, error |-> "not found"]
    ELSE IF src.kind = "invalid"
    THEN [data |-> <<>>, error |-> "decode error"]
    ELSE IF src.kind = "list"
    THEN [data |-> src.data, error |-> ""]
    ELSE [data |-> <<>>, error |-> "format is incorrect"]

\* population without its element at position j.
RemoveAt(population, j) ==
    [i \in 1..(Len(population) - 1) |->
        IF i < j THEN population[i] ELSE population[i + 1]]

\* The positions that hold the first occurrence of their value.
FirstOccurrences(population) ==
    {j \in 1..Len(population) : \A i \in 1..(j - 1) : population[i] # population[j]}

\* A variant of random.sample that leaves the chosen element in the
\* population, so that a position can be drawn twice.
RECURSIVE SampleWithReplacement(_, _)
SampleWithReplacement(population, k) ==
    IF k = 0
    THEN {<<>>}
    ELSE UNION {{<<population[j]>> \o s :
                    s \in SampleWithReplacement(population, k - 1)} :
                j \in FirstOccurrences(population)}

\* random.sample(population, k): the lists obtained by drawing k positions
\* without replacement.  Drawing either of two positions that hold equal
\* values gives the same lists, so one position per value is enumerated.
RECURSIVE RandomSample(_, _)
RandomSample(population, k) ==
    IF k = 0
    THEN {<<>>}
    ELSE UNION {{<<population[j]>> \o s :
                    s \in RandomSample(RemoveAt(population, j), k - 1)} :
                j \in FirstOccurrences(population)}

\* count = min(QUESTIONS_PER_TEST, len(bank))
SampleCount(loaded) == Min(QUESTIONS_PER_TEST, Len(loaded))

\* A variant of start_test that clears the session when nothing was loaded.
StartTestResetOnFailure(src) ==
    LET loaded == load_questions_from_file(src)
    IN  /\ bank' = loaded.data
        /\ load_error' = loaded.error
        /\ IF loaded.data = <<>>
           THEN /\ selected_questions' = <<>>
                /\ start_time' = NoTime
                /\ exam_started' = FALSE
           ELSE /\ selected_questions'
                    \in RandomSample(loaded.data, SampleCount(loaded.data))
                /\ start_time' = <<clock>>
                /\ exam_started' = TRUE

\* A variant of start_test without the "if not bank: return" guard.
StartTestWithoutEmptyCheck(src) ==
    LET loaded == load_questions_from_file(src)
    IN  /\ bank' = loaded.data
        /\ load_error' = loaded.error
        /\ selected_questions'
            \in RandomSample(loaded.data, SampleCount(loaded.data))
        /\ start_time' = <<clock>>
        /\ exam_started' = TRUE

\* start_test, reading questions.json with content src.
start_test(src) ==
    LET loaded == load_questions_from_file(src)
    IN  /\ bank' = loaded.data
        /\ load_error' = loaded.error
        /\ IF loaded.data = <<>>
           THEN UNCHANGED session
           ELSE /\ selected_questions'
                    \in RandomSample(loaded.data, SampleCount(loaded.data))
                /\ start_time' = <<clock>>
                /\ exam_started' = TRUE

----------------------------------------------------------------------------
\* Grading, the body of "if submitted:".

TestDurationSeconds == TEST_DURATION_MINUTES * 60

\* A variant of IsLate that counts a submit made exactly at the deadline.
IsLateInclusive(elapsed) == elapsed >= TestDurationSeconds

\* is_late = elapsed > TEST_DURATION_MINUTES * 60
IsLate(elapsed) == elapsed > TestDurationSeconds

\* is_correct = (user_val == correct_val)
IsCorrect(user_val, correct_val) == user_val = correct_val

\* The is_correct of every question, in order.
Verdicts(questions, responses) ==
    [i \in 1..Len(questions) |-> IsCorrect(responses[i], questions[i].answer)]

\* A variant of Score that counts the questions that were answered.
ScoreOfAnswered(questions, responses) ==
    Cardinality({i \in 1..Len(questions) : responses[i] # PyNone})

RECURSIVE ScoreLoop(_, _, _)
ScoreLoop(questions, responses, i) ==
    IF i > Len(questions)
    THEN 0
    ELSE (IF IsCorrect(responses[i], questions[i].answer) THEN 1 ELSE 0)
            + ScoreLoop(questions, responses, i + 1)

\* score after the grading loop: one more for every correct question.
Score(questions, responses) == ScoreLoop(questions, responses, 1)

\* f"{(score / total) * 100:.1f}" as a number of tenths of a percent: the
\* nearest tenth, a tie going to the even one.
FormatOneDecimal(score, total) ==
    LET q == (1000 * score) \div total
        twice == 2 * ((1000 * score) % total)
    IN  IF twice > total THEN q + 1
        ELSE IF twice < total THEN q
        ELSE IF q % 2 = 0 THEN q ELSE q + 1

\* A variant of Tier whose first threshold is strict.
TierStrict(score) ==
    IF score > ExcellentMin THEN "excellent"
    ELSE IF score >= ReviewMin THEN "needs review"
    ELSE "needs practice"

\* The message chosen by "if score >= 25 / elif score >= 15 / else".
Tier(score) ==
    IF score >= ExcellentMin THEN "excellent"
    ELSE IF score >= ReviewMin THEN "needs review"
    ELSE "needs practice"

\* What a submit renders, elapsed seconds after start_time.
ResultsOf(questions, responses, elapsed, score) ==
    IF Len(questions) = 0
    THEN [submitted |-> TRUE, error |-> "ZeroDivisionError",
          responses |-> responses, elapsed |-> elapsed,
          is_late |-> IsLate(elapsed),
          verdicts |-> Verdicts(questions, responses),
          raw_score |-> score, total |-> 0, percentage |-> 0, tier |-> ""]
    ELSE [submitted |-> TRUE, error |-> "",
          responses |-> responses, elapsed |-> elapsed,
          is_late |-> IsLate(elapsed),
          verdicts |-> Verdicts(questions, responses),
          raw_score |-> score, total |-> Len(questions),
          percentage |-> FormatOneDecimal(score, Len(questions)),
          tier |-> Tier(score)]

\* A variant of Grade that gives a late submit no points.
GradeZeroWhenLate(questions, responses, elapsed) ==
    ResultsOf(questions, responses, elapsed,
              IF IsLate(elapsed) THEN 0 ELSE Score(questions, responses))

Grade(questions, responses, elapsed) ==
    ResultsOf(questions, responses, elapsed, Score(questions, responses))

\* What a radio of question q can hold: one of q['options'], or None.
Choices(q) == {q.options[i] : i \in DOMAIN q.options} \cup {PyNone}

\* The form contents a submit is tried with: every one for a short test; for
\* a long one the first k questions answered with their first option and
\* the others left empty.
Responses(questions) ==
    IF Len(questions) <= MaxBank
    THEN {r \in [1..Len(questions) -> UNION {Choices(q) : q \in Records}] :
            \A i \in 1..Len(questions) : r[i] \in Choices(questions[i])}
    ELSE {[i \in 1..Len(questions) |->
                IF i <= k THEN questions[i].options[1] ELSE PyNone] :
            k \in 0..Len(questions)}

----------------------------------------------------------------------------
\* The state after initialize_session on a new browser session.
Init ==
    /\ exam_started = FALSE
    /\ selected_questions = <<>>
    /\ start_time = NoTime
    /\ clock = 0
    /\ bank = <<>>
    /\ load_error = ""
    /\ report = NoReport

\* "Start New Test": start_test(), then st.rerun(), whose run renders the
\* page without results.
StartNewTest ==
    \E src \in FileContents :
        /\ start_test(src)
        /\ report' = NoReport
        /\ UNCHANGED clock

\* A variant of SubmitWith that ends the test once it is graded.
SubmitEndsTest(responses) ==
    /\ exam_started
    /\ report' = Grade(selected_questions, responses, clock - start_time[1])
    /\ exam_started' = FALSE
    /\ selected_questions' = <<>>
    /\ start_time' = NoTime
    /\ bank' = <<>>
    /\ load_error' = ""
    /\ UNCHANGED clock

\* "Submit Test" with the given form contents; the form exists only while
\* exam_started.
SubmitWith(responses) ==
    /\ exam_started
    /\ report' = Grade(selected_questions, responses, clock - start_time[1])
    /\ bank' = <<>>
    /\ load_error' = ""
    /\ UNCHANGED <<session, clock>>

SubmitTest == \E responses \in Responses(selected_questions) : SubmitWith(responses)

\* Wall-clock time passes, a full test duration at a time.
Tick ==
    /\ clock < MaxTicks * TestDurationSeconds
    /\ clock' = clock + TestDurationSeconds
    /\ UNCHANGED <<session, bank, load_error, report>>

Next == StartNewTest \/ SubmitTest \/ Tick

Spec == Init /\ [][Next]_vars

----------------------------------------------------------------------------
\* Properties.

\* Number of positions of seq that hold x.
Count(seq, x) == Cardinality({i \in DOMAIN seq : seq[i] = x})

\* The records of seq.
Range(seq) == {seq[i] : i \in DOMAIN seq}

\* A script run in which "Start New Test" was pressed: the only step that
\* leaves the clock alone and ends with no results on the page.
StartStep == clock' = clock /\ report' = NoReport

\* A script run in which "Submit Test" was pressed.
SubmitStep == clock' = clock /\ report'.submitted

\* What a report says about the answers, apart from the time of the submit.
Marks(r) == <<r.verdicts, r.raw_score, r.total, r.percentage, r.tier>>

\* C1: after a start_test that loaded a non-empty bank of size N, the session
\* holds exactly min(QUESTIONS_PER_TEST, N) questions, every one a record of
\* that bank, taken from pairwise distinct positions of it: no record occurs
\* more often among the selected questions than it occurs in the bank.
C1_SampleOfBank ==
    bank # <<>> =>
        /\ exam_started
        /\ Len(selected_questions) =
            (IF Len(bank) < QUESTIONS_PER_TEST THEN Len(bank) ELSE QUESTIONS_PER_TEST)
        /\ \A i \in DOMAIN selected_questions :
                \E j \in DOMAIN bank : selected_questions[i] = bank[j]
        /\ \A q \in Range(selected_questions) :
                Count(selected_questions, q) <= Count(bank, q)

\* A bank larger than the configured count was sampled down to that count.
C1_Witness ==
    /\ Len(bank) > QUESTIONS_PER_TEST
    /\ Len(selected_questions) = QUESTIONS_PER_TEST

\* C2: a report's raw score is the number of questions whose response equals
\* the question's answer, its total is the number of selected questions, its
\* percentage is 100 * raw_score / total to the nearest tenth, and
\* 0 <= raw_score <= total.
C2_ScoreIsMatchCount ==
    report.submitted =>
        LET n == Len(selected_questions)
            matches == {i \in 1..n :
                            report.responses[i] = selected_questions[i].answer}
            off == report.percentage * n - 1000 * report.raw_score
        IN  /\ report.raw_score = Cardinality(matches)
            /\ report.total = n
            /\ 2 * off <= n /\ 2 * off >= -n
            /\ 0 <= report.raw_score /\ report.raw_score <= report.total

\* Two questions, one answered correctly and one with a wrong option: 1 of 2.
C2_Witness ==
    /\ report.submitted
    /\ report.total = 2
    /\ report.raw_score = 1
    /\ report.percentage = 500
    /\ \E i \in 1..2 :
            /\ report.responses[i] # PyNone
            /\ report.responses[i] # selected_questions[i].answer

\* C3: a question left without a selection is scored incorrect, whatever
\* record was loaded for it.
C3_NoSelectionIsIncorrect ==
    report.submitted =>
        \A i \in DOMAIN report.responses :
            report.responses[i] = PyNone => ~report.verdicts[i]

\* C4: a "Start New Test" whose load returned nothing (file missing, not
\* JSON, not a list, or an empty list) leaves exam_started,
\* selected_questions and start_time as they were.
C4_FailedStartKeepsSession ==
    [][(StartStep /\ bank' = <<>>) => UNCHANGED session]_vars

\* A load failed while a test was active, and the test is still active.
C4_Witness ==
    /\ exam_started
    /\ load_error # ""
    /\ selected_questions # <<>>

\* C6 as claimed: a submit that follows a submit of the same responses in the
\* same session reports the same verdicts, raw score, percentage, tier and
\* lateness flag.
C6_SameReportWhenever ==
    [][(/\ SubmitStep
        /\ report.submitted
        /\ report'.responses = report.responses)
            => (Marks(report') = Marks(report) /\ report'.is_late = report.is_late)]_vars

\* C6 amended: such a submit reports the same verdicts, raw score, percentage
\* and tier; its lateness flag is decided by the time of the submit, and can
\* only turn from on time to late.
C6_SameMarksWhenever ==
    [][(/\ SubmitStep
        /\ report.submitted
        /\ report'.responses = report.responses)
            => /\ Marks(report') = Marks(report)
               /\ report'.is_late = (clock' - start_time'[1] > 60 * TEST_DURATION_MINUTES)
               /\ report.is_late => report'.is_late]_vars

\* An on-time report with a correct answer is on the page, the deadline has
\* passed since, and the form can be submitted again.
C6_Witness ==
    /\ report.submitted
    /\ ~report.is_late
    /\ report.raw_score > 0
    /\ clock - start_time[1] > 60 * TEST_DURATION_MINUTES

\* C7: the form can be submitted whenever a test is active; a report is late
\* exactly when more than 30 minutes had elapsed at the submit, and its
\* verdicts, raw score, percentage and tier are those of a submit of the same
\* responses made at start_time.
C7_LatenessIsAdvisory ==
    /\ exam_started => ENABLED SubmitTest
    /\ report.submitted =>
        /\ report.is_late = (report.elapsed > 1800)
        /\ Marks(report) = Marks(Grade(selected_questions, report.responses, 0))

\* A late submit was graded and scored points.
C7_Witness ==
    /\ report.submitted
    /\ report.is_late
    /\ report.raw_score > 0

\* C8: the tier is decided by the raw score alone: 25 or more is excellent,
\* 15 to 24 needs review, 14 or fewer needs practice; a test of fewer than
\* 25 questions is never excellent.
C8_TierThresholds ==
    report.submitted =>
        /\ report.tier \in {"excellent", "needs review", "needs practice"}
        /\ report.tier = "excellent" <=> report.raw_score >= 25
        /\ report.tier = "needs review" <=>
                (15 <= report.raw_score /\ report.raw_score <= 24)
        /\ report.tier = "needs practice" <=> report.raw_score <= 14
        /\ report.total < 25 => report.tier # "excellent"

\* A raw score of exactly 25 out of 30.
C8_Witness ==
    /\ report.submitted
    /\ report.raw_score = 25
    /\ report.total = 30

\* C9: an active session has questions and a start time, an inactive one has
\* neither; grading never meets an empty session, so it never divides by zero.
C9_SessionShape ==
    /\ exam_started => (selected_questions # <<>> /\ start_time # NoTime)
    /\ ~exam_started => (selected_questions = <<>> /\ start_time = NoTime)
    /\ report.submitted => (report.total > 0 /\ report.error = "")

\* A test of a single question, the shortest there can be, was graded.
C9_Witness ==
    /\ exam_started
    /\ report.submitted
    /\ report.total = 1
    /\ Len(selected_questions) = 1

\* C10: a submit leaves exam_started, selected_questions and start_time as
\* they were, no step ends an active test, and while results are on the page
\* the test is active and the form can be submitted again, also with
\* responses other than the graded ones.
C10_SubmitKeepsSession ==
    /\ [][/\ SubmitStep => UNCHANGED session
          /\ exam_started => exam_started']_vars
    /\ [](report.submitted =>
            /\ exam_started
            /\ ENABLED SubmitTest
            /\ \E r \in Responses(selected_questions) :
                    r # report.responses /\ ENABLED SubmitWith(r))

\* A test still active after a later submit in which every answer was right.
C10_Witness ==
    /\ exam_started
    /\ report.submitted
    /\ report.elapsed > 0
    /\ report.raw_score = report.total

====
